---- MODULE Spec2Model ----
(***************************************************************************)
(* A model of the procfs status parser (proc_status.go) and of the NFSv4   *)
(* operations record (nfsd.go).                                            *)
(*                                                                         *)
(* Text is modelled at the character level: a string is a sequence of      *)
(* one-character strings, so that reading a line (bufio ReadString) and    *)
(* matching it against a scanner's format (fmt.Sscanf) are computed the    *)
(* way the library computes them.                                          *)
(***************************************************************************)
EXTENDS Integers, Sequences, FiniteSets, TLC

(***************************************************************************)
(* Bounds of the model.                                                    *)
(***************************************************************************)
\* Status files are generated for seeds 0..MaxSeed; the seed fixes the values.
MaxSeed == 1
\* A status stream ends after its content less 0..MaxCut trailing characters.
MaxCut == 2
\* Declared counts 0..MaxValues of the proc4ops line.
MaxValues == 40

(***************************************************************************)
(* Characters and error values.                                            *)
(***************************************************************************)
Nil == "nil"
\* io.EOF, returned by ReadString when the stream ends (proc_status.go:101).
EOF == "EOF"
\* An underlying read failure (an *os.PathError wrapping EIO).
EIO == "EIO"
\* os.Open's failure (an *os.PathError wrapping ENOENT).
ENOENT == "ENOENT"

\* The end of the scanned string, as fmt's getRune reports it.
eof == "eof"

Digits == <<"0", "1", "2", "3", "4", "5", "6", "7", "8", "9">>

isDigit(c) == \E k \in 1..10 : Digits[k] = c

DigitVal(c) == (CHOOSE k \in 1..10 : Digits[k] = c) - 1

\* fmt's isSpace, for the characters of the model's alphabet.
isSpace(c) == c \in {" ", "\t", "\n", "\r"}

(***************************************************************************)
(* ProcStatus and the scanner table of newProcStatusBuilder.               *)
(***************************************************************************)
Fields ==
  <<"TID", "TracerPid",
    "UIDReal", "UIDEffective", "UIDSavedSet", "UIDFileSystem",
    "GIDReal", "GIDEffective", "GIDSavedSet", "GIDFileSystem",
    "FDSize",
    "VmPeakKB", "VmSizeKB", "VmLckKB", "VmHWMKB", "VmRSSKB", "VmDataKB",
    "VmStkKB", "VmExeKB", "VmLibKB", "VmPTEKB", "VmSwapKB",
    "VoluntaryCtxtSwitches", "NonvoluntaryCtxtSwitches">>

FieldSet == {Fields[k] : k \in 1..Len(Fields)}

\* ProcStatus{}: every field zero.
ZeroProcStatus == [f \in FieldSet |-> 0]

\* b.scanners: each scanner is a format and the fields its args point to.
scanners ==
  << [format |-> <<"P", "i", "d", ":", " ", "%", "d">>,
      args |-> <<"TID">>],
     [format |-> <<"T", "r", "a", "c", "e", "r", "P", "i", "d", ":", " ", "%", "d">>,
      args |-> <<"TracerPid">>],
     [format |-> <<"U", "i", "d", ":", " ", "%", "d", " ", "%", "d", " ", "%", "d", " ", "%", "d">>,
      args |-> <<"UIDReal", "UIDEffective", "UIDSavedSet", "UIDFileSystem">>],
     [format |-> <<"G", "i", "d", ":", " ", "%", "d", " ", "%", "d", " ", "%", "d", " ", "%", "d">>,
      args |-> <<"GIDReal", "GIDEffective", "GIDSavedSet", "GIDFileSystem">>],
     [format |-> <<"F", "D", "S", "i", "z", "e", ":", " ", "%", "d">>,
      args |-> <<"FDSize">>],
     [format |-> <<"V", "m", "P", "e", "a", "k", ":", " ", "%", "d", " ", "k", "B">>,
      args |-> <<"VmPeakKB">>],
     [format |-> <<"V", "m", "S", "i", "z", "e", ":", " ", "%", "d", " ", "k", "B">>,
      args |-> <<"VmSizeKB">>],
     [format |-> <<"V", "m", "L", "c", "k", ":", " ", " ", "%", "d", " ", "k", "B">>,
      args |-> <<"VmLckKB">>],
     [format |-> <<"V", "m", "H", "W", "M", ":", " ", " ", "%", "d", " ", "k", "B">>,
      args |-> <<"VmHWMKB">>],
     [format |-> <<"V", "m", "R", "S", "S", ":", " ", " ", "%", "d", " ", "k", "B">>,
      args |-> <<"VmRSSKB">>],
     [format |-> <<"V", "m", "D", "a", "t", "a", ":", " ", "%", "d", " ", "k", "B">>,
      args |-> <<"VmDataKB">>],
     [format |-> <<"V", "m", "S", "t", "k", ":", " ", " ", "%", "d", " ", "k", "B">>,
      args |-> <<"VmStkKB">>],
     [format |-> <<"V", "m", "E", "x", "e", ":", " ", " ", "%", "d", " ", "k", "B">>,
      args |-> <<"VmExeKB">>],
     [format |-> <<"V", "m", "L", "i", "b", ":", " ", " ", "%", "d", " ", "k", "B">>,
      args |-> <<"VmLibKB">>],
     [format |-> <<"V", "m", "P", "T", "E", ":", " ", " ", "%", "d", " ", "k", "B">>,
      args |-> <<"VmPTEKB">>],
     [format |-> <<"V", "m", "S", "w", "a", "p", ":", " ", "%", "d", " ", "k", "B">>,
      args |-> <<"VmSwapKB">>],
     [format |-> <<"v", "o", "l", "u", "n", "t", "a", "r", "y", "_", "c", "t", "x", "t", "_", "s", "w", "i", "t", "c", "h", "e", "s", ":", " ", " ", " ", " ", "%", "d">>,
      args |-> <<"VoluntaryCtxtSwitches">>],
     [format |-> <<"n", "o", "n", "v", "o", "l", "u", "n", "t", "a", "r", "y", "_", "c", "t", "x", "t", "_", "s", "w", "i", "t", "c", "h", "e", "s", ":", " ", "%", "d">>,
      args |-> <<"NonvoluntaryCtxtSwitches">>] >>

NumScanners == Len(scanners)

(***************************************************************************)
(* fmt.Sscanf(line, format, args...): the part of fmt's doScanf / advance  *)
(* the formats above use (literals, runs of spaces, %d).  The result is    *)
(* err (TRUE when Sscanf returns a non-nil error) and vals, the values     *)
(* stored through the first Len(vals) args: scanOne stores each value as   *)
(* soon as its verb is scanned, before the rest of the format is matched.  *)
(* Values stay far below the width of int, so ParseInt never overflows.    *)
(***************************************************************************)
getRune(line, p) == IF p > Len(line) THEN eof ELSE line[p]

\* The first index of format at or after i that is not a space.
RECURSIVE SkipFormatSpace(_, _)
SkipFormatSpace(format, i) ==
  IF i <= Len(format) /\ isSpace(format[i])
    THEN SkipFormatSpace(format, i + 1)
    ELSE i

\* advance's "for isSpace(inputc) && inputc != '\n'": the first position at
\* or after p holding a non-space, a newline or the end.
RECURSIVE SkipInputSpace(_, _)
SkipInputSpace(line, p) ==
  IF p <= Len(line) /\ isSpace(line[p]) /\ line[p] # "\n"
    THEN SkipInputSpace(line, p + 1)
    ELSE p

\* ss.SkipSpace with nlIsSpace false: the position after the spaces, or 0
\* for the "unexpected newline" error.
RECURSIVE SkipSpace(_, _)
SkipSpace(line, p) ==
  IF p > Len(line) THEN p
  ELSE IF line[p] = "\r" /\ getRune(line, p + 1) = "\n" THEN SkipSpace(line, p + 1)
  ELSE IF line[p] = "\n" THEN 0
  ELSE IF isSpace(line[p]) THEN SkipSpace(line, p + 1)
  ELSE p

\* scanNumber: the position after the run of digits starting at p.
RECURSIVE SkipDigits(_, _)
SkipDigits(line, p) ==
  IF p <= Len(line) /\ isDigit(line[p]) THEN SkipDigits(line, p + 1) ELSE p

\* strconv.ParseInt of the digits line[p..q-1], base 10.
RECURSIVE ParseDigits(_, _, _, _)
ParseDigits(line, p, q, acc) ==
  IF p >= q THEN acc
  ELSE ParseDigits(line, p + 1, q, acc * 10 + DigitVal(line[p]))

\* scanInt for %d at p (spaces already skipped): ok, the value, the position
\* after the token.
scanInt(line, p) ==
  LET p1 == IF getRune(line, p) \in {"+", "-"} THEN p + 1 ELSE p
      p2 == SkipDigits(line, p1)
      mag == ParseDigits(line, p1, p2, 0)
  IN IF p > Len(line) THEN [ok |-> FALSE, val |-> 0, pos |-> p]  \* notEOF
     ELSE IF p2 = p1 THEN [ok |-> FALSE, val |-> 0, pos |-> p1] \* expected integer
     ELSE [ok |-> TRUE,
           val |-> IF line[p] = "-" THEN 0 - mag ELSE mag,
           pos |-> p2]

RECURSIVE doScanf(_, _, _, _, _)
doScanf(line, format, p, i, vals) ==
  IF i > Len(format) THEN [err |-> FALSE, vals |-> vals]
  ELSE IF isSpace(format[i]) THEN
    \* a run of spaces in the format matches one or more spaces of the
    \* input (not a newline), or the end of the input
    LET inputc == getRune(line, p)
    IN IF (~isSpace(inputc) /\ inputc # eof) \/ inputc = "\n"
         THEN [err |-> TRUE, vals |-> vals]
         ELSE doScanf(line, format, SkipInputSpace(line, p),
                      SkipFormatSpace(format, i), vals)
  ELSE IF format[i] = "%" THEN
    \* the verb %d: skip spaces, scan an integer, store it
    LET q == SkipSpace(line, p)
        r == scanInt(line, q)
    IN IF q = 0 \/ ~r.ok
         THEN [err |-> TRUE, vals |-> vals]
         ELSE doScanf(line, format, r.pos, i + 2, Append(vals, r.val))
  ELSE
    \* a literal of the format must be the next character of the input
    IF getRune(line, p) # format[i]
      THEN [err |-> TRUE, vals |-> vals]
      ELSE doScanf(line, format, p + 1, i + 1, vals)

Sscanf(line, format) == doScanf(line, format, 1, 1, <<>>)

(***************************************************************************)
(* bufio.Reader.ReadString('\n') on a stream that delivers data and then   *)
(* fails with end (io.EOF at the end of the file, or a read error): the    *)
(* line up to and including the newline with a nil error, or whatever is   *)
(* left before the failure together with that error.                       *)
(***************************************************************************)
\* The index of the first newline of data at or after p, 0 when none.
RECURSIVE IndexNewline(_, _)
IndexNewline(data, p) ==
  IF p > Len(data) THEN 0
  ELSE IF data[p] = "\n" THEN p
  ELSE IndexNewline(data, p + 1)

ReadString(stream, p) ==
  LET nl == IndexNewline(stream.data, p)
  IN IF nl # 0
       THEN [line |-> SubSeq(stream.data, p, nl), err |-> Nil, pos |-> nl + 1]
       ELSE [line |-> SubSeq(stream.data, p, Len(stream.data)),
             err |-> stream.end, pos |-> Len(stream.data) + 1]

(***************************************************************************)
(* The status files the model reads.  A file is generated from a seed in   *)
(* the shape the kernel writes (a label, a tab, the values, " kB" after a  *)
(* memory size, a newline), then edited: a required line dropped, two      *)
(* neighbours swapped, or one extra line inserted; the stream delivers the *)
(* content less its last cut characters and then ends with io.EOF or with  *)
(* a read error.                                                           *)
(***************************************************************************)
\* The labels of the kernel's lines, in the order the kernel writes them.
KernelLabels ==
  << <<"P", "i", "d", ":">>,
     <<"T", "r", "a", "c", "e", "r", "P", "i", "d", ":">>,
     <<"U", "i", "d", ":">>,
     <<"G", "i", "d", ":">>,
     <<"F", "D", "S", "i", "z", "e", ":">>,
     <<"V", "m", "P", "e", "a", "k", ":">>,
     <<"V", "m", "S", "i", "z", "e", ":">>,
     <<"V", "m", "L", "c", "k", ":">>,
     <<"V", "m", "H", "W", "M", ":">>,
     <<"V", "m", "R", "S", "S", ":">>,
     <<"V", "m", "D", "a", "t", "a", ":">>,
     <<"V", "m", "S", "t", "k", ":">>,
     <<"V", "m", "E", "x", "e", ":">>,
     <<"V", "m", "L", "i", "b", ":">>,
     <<"V", "m", "P", "T", "E", ":">>,
     <<"V", "m", "S", "w", "a", "p", ":">>,
     <<"v", "o", "l", "u", "n", "t", "a", "r", "y", "_", "c", "t", "x", "t", "_", "s", "w", "i", "t", "c", "h", "e", "s", ":">>,
     <<"n", "o", "n", "v", "o", "l", "u", "n", "t", "a", "r", "y", "_", "c", "t", "x", "t", "_", "s", "w", "i", "t", "c", "h", "e", "s", ":">> >>

\* Lines a status file may hold besides the canonical ones: blank and
\* unrelated lines, lines that match a label and only part of its template,
\* and second copies of required lines with other values.
ExtraLines ==
  << <<"\n">>,
     <<"P", "P", "i", "d", ":", "\t", "1", "\n">>,
     <<"U", "i", "d", ":", "\t", "9", "1", "\t", "9", "2", "\n">>,
     <<"G", "i", "d", ":", "\t", "9", "3", "\n">>,
     <<"V", "m", "P", "e", "a", "k", ":", "\t", "9", "4", " ", "M", "B", "\n">>,
     <<"V", "m", "R", "S", "S", ":", "\t", "9", "5", "\n">>,
     <<"P", "i", "d", ":", "\t", "9", "6", "\n">>,
     <<"U", "i", "d", ":", "\t", "9", "7", "\t", "9", "8", "\t", "9", "9", "\t", "9", "0", "\n">>,
     <<"V", "m", "S", "w", "a", "p", ":", "\t", "8", "9", " ", "k", "B", "\n">>,
     <<"n", "o", "n", "v", "o", "l", "u", "n", "t", "a", "r", "y", "_", "c", "t", "x", "t", "_", "s", "w", "i", "t", "c", "h", "e", "s", ":", "\t", "8", "8", "\n">>,
     <<"P", "i", "d", ":", "\t", "x", "\n">>,
     <<"F", "D", "S", "i", "z", "e", ":", "\t", "-", "5", "\n">>,
     <<"P", "i", "d", ":", "7", "\n">> >>

NameLine == <<"N", "a", "m", "e", ":", "\t", "c", "a", "t", "\n">>

\* The kernel's %d of a natural number.
RECURSIVE FormatInt(_)
FormatInt(n) ==
  IF n < 10 THEN <<Digits[n + 1]>>
  ELSE FormatInt(n \div 10) \o <<Digits[(n % 10) + 1]>>

\* The index in Fields of the first arg of scanner k.
RECURSIVE FirstArg(_)
FirstArg(k) == IF k = 1 THEN 1 ELSE FirstArg(k - 1) + Len(scanners[k - 1].args)

\* The value a file of this seed holds for field number a of Fields.
Val(seed, a) == seed * 100 + a

\* The memory sizes are the lines the kernel ends in " kB".
IsMemoryLine(k) == KernelLabels[k][1] = "V"

RECURSIVE JoinValues(_, _, _)
JoinValues(seed, a, n) ==
  IF n = 0 THEN <<>>
  ELSE <<"\t">> \o FormatInt(Val(seed, a)) \o JoinValues(seed, a + 1, n - 1)

\* Line k of the kernel's output for this seed.
KernelLine(k, seed) ==
  IF IsMemoryLine(k)
    THEN KernelLabels[k] \o <<"\t", " ">> \o FormatInt(Val(seed, FirstArg(k)))
           \o <<" ", "k", "B", "\n">>
    ELSE KernelLabels[k] \o JoinValues(seed, FirstArg(k), Len(scanners[k].args))
           \o <<"\n">>

NoEdit == [kind |-> "none", at |-> 0, extra |-> 0]

Edits ==
  {NoEdit}
    \cup {[kind |-> "drop", at |-> k, extra |-> 0] : k \in 1..NumScanners}
    \cup {[kind |-> "swap", at |-> k, extra |-> 0] : k \in 1..(NumScanners - 1)}
    \cup {[kind |-> "ins", at |-> k, extra |-> e] :
            k \in 1..(NumScanners + 1), e \in 1..Len(ExtraLines)}

\* The content from required line k on, edited.
RECURSIVE EditedFrom(_, _, _)
EditedFrom(k, seed, edit) ==
  IF k > NumScanners
    THEN IF edit.kind = "ins" /\ edit.at = k THEN ExtraLines[edit.extra] ELSE <<>>
  ELSE IF edit.kind = "drop" /\ edit.at = k
    THEN EditedFrom(k + 1, seed, edit)
  ELSE IF edit.kind = "swap" /\ edit.at = k
    THEN KernelLine(k + 1, seed) \o KernelLine(k, seed) \o EditedFrom(k + 2, seed, edit)
  ELSE IF edit.kind = "ins" /\ edit.at = k
    THEN ExtraLines[edit.extra] \o KernelLine(k, seed) \o EditedFrom(k + 1, seed, edit)
  ELSE KernelLine(k, seed) \o EditedFrom(k + 1, seed, edit)

Content(in) == NameLine \o EditedFrom(1, in.seed, in.edit)

\* The stream a caller reads for input in.
Stream(in) ==
  LET all == Content(in)
  IN [data |-> SubSeq(all, 1, Len(all) - in.cut), end |-> in.end]

Inputs == [seed : 0..MaxSeed, edit : Edits, cut : 0..MaxCut, end : {EOF, EIO}]

\* The inputs of the concurrent runs: whole files, and files with a partly
\* matching Uid line before the real one.
ConcEdits == {NoEdit, [kind |-> "ins", at |-> 3, extra |-> 3]}

ConcInputs == [seed : 0..MaxSeed, edit : ConcEdits, cut : {0}, end : {EOF}]

(***************************************************************************)
(* The state.                                                              *)
(***************************************************************************)
VARIABLES
  input,    \* per caller: the description of the file it reads
  file,     \* per caller: the stream behind its handle
  pc,       \* per caller: "start", "scan", "return" or "done"
  handle,   \* per caller: "none", "open" or "closed" (f of NewStatus)
  closes,   \* per caller: the number of f.Close() calls made
  pos,      \* per caller: the reader's position in the stream
  idx,      \* per caller: the index of the current scanner
  b,        \* per caller: the address of its builder, 0 before there is one
  heap,     \* the builders allocated so far: heap[a] is builder a's ps
  ret,      \* per caller: what NewStatus returned, NoResult before it has
  nfsIn,    \* the description of the statistics line: its count and seed
  nfsLine,  \* the statistics line, as text
  nfsOps,   \* the result of parsing it
  nfsPc     \* "none" (no line to parse), "line" or "parsed"

vars ==
  <<input, file, pc, handle, closes, pos, idx, b, heap, ret,
    nfsIn, nfsLine, nfsOps, nfsPc>>

nfsVars == <<nfsIn, nfsLine, nfsOps, nfsPc>>

statusVars == <<input, file, pc, handle, closes, pos, idx, b, heap, ret>>

\* The result of a call that has not returned.
NoResult == [ps |-> ZeroProcStatus, err |-> "pending"]

Callers == DOMAIN input

(***************************************************************************)
(* newProcStatusBuilder and readStatus.                                    *)
(***************************************************************************)
\* A variant of newProcStatusBuilder that keeps one builder for every call.
sharedBuilder(h) ==
  [addr |-> 1, heap |-> IF h = <<>> THEN <<ZeroProcStatus>> ELSE h]

\* newProcStatusBuilder: a new builder with a zero ps; its scanners' args
\* point into that builder's ps.
newProcStatusBuilder(h) ==
  [addr |-> Len(h) + 1, heap |-> Append(h, ZeroProcStatus)]

\* The stores Sscanf makes through args: vals[j] into the field args[j].
store(ps, args, vals) ==
  [f \in FieldSet |->
     IF \E j \in 1..Len(vals) : args[j] = f
       THEN vals[CHOOSE j \in 1..Len(vals) : args[j] = f]
       ELSE ps[f]]

\* A variant of the read check that gives up only when nothing was read.
readFailsEmpty(line, err) == err # Nil /\ line = <<>>

\* "if err != nil" after ReadString.
readFails(line, err) == err # Nil

\* A variant of the error return that hands out the record built so far.
errResultPartial(ps, err) == [ps |-> ps, err |-> err]

\* A variant of the error return that reports every failure as io.EOF.
errResultEOF(ps, err) == [ps |-> ZeroProcStatus, err |-> EOF]

\* "return ProcStatus{}, err".
errResult(ps, err) == [ps |-> ZeroProcStatus, err |-> err]

\* A variant of the final return that hands out a zero record.
okResultZero(ps) == [ps |-> ZeroProcStatus, err |-> Nil]

\* "return b.ps, nil".
okResult(ps) == [ps |-> ps, err |-> Nil]

\* A variant of the match test that moves on after every line.
nextScannerAlways(i, s) == i + 1

\* A variant of the match test that takes any stored value for a match.
nextScannerStored(i, s) == IF Len(s.vals) = 0 THEN i ELSE i + 1

\* "if err == nil { break }", s being what Sscanf returned: the scanner that
\* gets the next line.
nextScanner(i, s) == IF s.err THEN i ELSE i + 1

\* One pass of the inner loop of readStatus for scanner i, the reader at p,
\* and, after the last scanner's match, the return.
iterate(stream, ps, p, i) ==
  LET r == ReadString(stream, p)
      s == Sscanf(r.line, scanners[i].format)
      ps2 == store(ps, scanners[i].args, s.vals)
      i2 == nextScanner(i, s)
  IN IF readFails(r.line, r.err)
       THEN [done |-> TRUE, ret |-> errResult(ps, r.err),
             ps |-> ps, pos |-> r.pos, idx |-> i]
       ELSE IF i2 > NumScanners
         THEN [done |-> TRUE, ret |-> okResult(ps2),
               ps |-> ps2, pos |-> r.pos, idx |-> i2]
         ELSE [done |-> FALSE, ret |-> NoResult,
               ps |-> ps2, pos |-> r.pos, idx |-> i2]

\* readStatus run to its end on a builder of its own.
RECURSIVE readStatusFrom(_, _, _, _)
readStatusFrom(stream, ps, p, i) ==
  LET n == iterate(stream, ps, p, i)
  IN IF n.done THEN n.ret ELSE readStatusFrom(stream, n.ps, n.pos, n.idx)

readStatus(stream) == readStatusFrom(stream, ZeroProcStatus, 1, 1)

(***************************************************************************)
(* NewStatus, step by step.                                                *)
(***************************************************************************)
\* A variant of NewStatus that closes the file only after a successful parse.
closeOnSuccess(h, result) == IF result.err = Nil THEN "closed" ELSE h

\* The deferred f.Close(): it runs on every return after a successful open.
deferClose(h, result) == "closed"

\* os.Open succeeds; the builder is made and the reader wraps the file.
OpenOk(c) ==
  /\ pc[c] = "start"
  /\ LET nb == newProcStatusBuilder(heap)
     IN /\ heap' = nb.heap
        /\ b' = [b EXCEPT ![c] = nb.addr]
  /\ handle' = [handle EXCEPT ![c] = "open"]
  /\ pos' = [pos EXCEPT ![c] = 1]
  /\ idx' = [idx EXCEPT ![c] = 1]
  /\ pc' = [pc EXCEPT ![c] = "scan"]
  /\ UNCHANGED <<input, file, closes, ret, nfsVars>>

\* os.Open fails: NewStatus returns its error, no handle was acquired.
OpenFail(c) ==
  /\ pc[c] = "start"
  /\ ret' = [ret EXCEPT ![c] = [ps |-> ZeroProcStatus, err |-> ENOENT]]
  /\ pc' = [pc EXCEPT ![c] = "done"]
  /\ UNCHANGED <<input, file, handle, closes, pos, idx, b, heap, nfsVars>>

\* One line is read and offered to the current scanner.
ReadLine(c) ==
  /\ pc[c] = "scan"
  /\ LET n == iterate(file[c], heap[b[c]], pos[c], idx[c])
     IN /\ heap' = [heap EXCEPT ![b[c]] = n.ps]
        /\ pos' = [pos EXCEPT ![c] = n.pos]
        /\ idx' = [idx EXCEPT ![c] = n.idx]
        /\ ret' = [ret EXCEPT ![c] = n.ret]
        /\ pc' = [pc EXCEPT ![c] = IF n.done THEN "return" ELSE "scan"]
  /\ UNCHANGED <<input, file, handle, closes, b, nfsVars>>

\* readStatus has returned: the deferred Close runs, NewStatus returns.
Return(c) ==
  /\ pc[c] = "return"
  /\ handle' = [handle EXCEPT ![c] = deferClose(handle[c], ret[c])]
  /\ closes' = [closes EXCEPT ![c] =
                  IF handle'[c] = "closed" THEN closes[c] + 1 ELSE closes[c]]
  /\ pc' = [pc EXCEPT ![c] = "done"]
  /\ UNCHANGED <<input, file, pos, idx, b, heap, ret, nfsVars>>

(***************************************************************************)
(* The NFSv4 operations record of nfsd.go and the proc4ops line.  nfsd.go  *)
(* declares the record; the parser of the line is modelled from the        *)
(* specification's tagged-line dispatch.                                   *)
(***************************************************************************)
\* A variant of the record that lacks its last counter.
NFSdv4OpsFieldsShort ==
  <<"Op0Unused", "Op1Unused", "Op2Future", "Access", "Close", "Commit",
    "Create", "DelegPurge", "DelegReturn", "GetAttr", "GetFH", "Link",
    "Lock", "Lockt", "Locku", "Lookup", "LookupRoot", "Nverify", "Open",
    "OpenAttr", "OpenConfirm", "OpenDgrd", "PutFH", "PutPubFH", "PutRootFH",
    "Read", "ReadDir", "ReadLink", "Remove", "Rename", "Renew", "RestoreFH",
    "SaveFH", "SecInfo", "SetAttr", "Verify", "Write">>

\* The counters of NFSdv4Ops after Values, in declared order.
NFSdv4OpsFields ==
  <<"Op0Unused", "Op1Unused", "Op2Future", "Access", "Close",
    "Commit", "Create", "DelegPurge", "DelegReturn", "GetAttr",
    "GetFH", "Link", "Lock", "Lockt", "Locku", "Lookup",
    "LookupRoot", "Nverify", "Open", "OpenAttr", "OpenConfirm",
    "OpenDgrd", "PutFH", "PutPubFH", "PutRootFH", "Read", "ReadDir",
    "ReadLink", "Remove", "Rename", "Renew", "RestoreFH", "SaveFH",
    "SecInfo", "SetAttr", "Verify", "Write", "RelLockOwner">>

NFSdv4OpsFieldSet == {NFSdv4OpsFields[k] : k \in 1..Len(NFSdv4OpsFields)} \cup {"Values"}

\* NFSdv4Ops{}: Values and every counter zero.
ZeroNFSdv4Ops == [f \in NFSdv4OpsFieldSet |-> 0]

\* Number k of the numbers a statistics line of this seed holds.
NfsVal(seed, k) == seed * 100 + k

RECURSIVE NfsNumbers(_, _, _)
NfsNumbers(seed, k, n) ==
  IF k > n THEN <<>>
  ELSE <<" ">> \o FormatInt(NfsVal(seed, k)) \o NfsNumbers(seed, k + 1, n)

\* The line "proc4ops n <n numbers>".
Proc4opsLine(n, seed) ==
  <<"p", "r", "o", "c", "4", "o", "p", "s", " ">> \o FormatInt(n)
    \o NfsNumbers(seed, 1, n) \o <<"\n">>

\* The whitespace-delimited tokens of line from position p on.
RECURSIVE Tokens(_, _)
Tokens(line, p) ==
  IF p > Len(line) THEN <<>>
  ELSE IF isSpace(line[p]) THEN Tokens(line, p + 1)
  ELSE LET q == CHOOSE q \in (p + 1)..(Len(line) + 1) :
                  /\ q > Len(line) \/ isSpace(line[q])
                  /\ \A r \in p..(q - 1) : ~isSpace(line[r])
       IN <<SubSeq(line, p, q - 1)>> \o Tokens(line, q)

IsUint(tok) == tok # <<>> /\ \A k \in 1..Len(tok) : isDigit(tok[k])

Min(x, y) == IF x <= y THEN x ELSE y

\* The variable-arity rule for the tag proc4ops: the first token after the
\* tag is Values; the next min(Values, known counters) tokens fill the named
\* counters in declared order; counters beyond Values stay zero; tokens
\* beyond the known counters are ignored.
parseProc4ops(line) ==
  LET toks == Tokens(line, 1)
      values == ParseDigits(toks[2], 1, Len(toks[2]) + 1, 0)
      n == Min(Min(values, Len(NFSdv4OpsFields)), Len(toks) - 2)
  IN IF Len(toks) < 2 \/ \E k \in 2..Len(toks) : ~IsUint(toks[k])
       THEN [err |-> TRUE, ops |-> ZeroNFSdv4Ops]
       ELSE [err |-> FALSE,
             ops |-> [f \in NFSdv4OpsFieldSet |->
                        IF f = "Values" THEN values
                        ELSE LET k == CHOOSE k \in 1..Len(NFSdv4OpsFields) :
                                        NFSdv4OpsFields[k] = f
                             IN IF k <= n
                                  THEN ParseDigits(toks[k + 2], 1, Len(toks[k + 2]) + 1, 0)
                                  ELSE 0]]

\* The statistics line is parsed.
ParseNfsd ==
  /\ nfsPc = "line"
  /\ nfsOps' = parseProc4ops(nfsLine)
  /\ nfsPc' = "parsed"
  /\ UNCHANGED <<statusVars, nfsIn, nfsLine>>

(***************************************************************************)
(* The specifications.                                                     *)
(***************************************************************************)
StatusInit(ins) ==
  /\ input = ins
  /\ file = [c \in DOMAIN ins |-> Stream(ins[c])]
  /\ pc = [c \in DOMAIN ins |-> "start"]
  /\ handle = [c \in DOMAIN ins |-> "none"]
  /\ closes = [c \in DOMAIN ins |-> 0]
  /\ pos = [c \in DOMAIN ins |-> 0]
  /\ idx = [c \in DOMAIN ins |-> 0]
  /\ b = [c \in DOMAIN ins |-> 0]
  /\ heap = <<>>
  /\ ret = [c \in DOMAIN ins |-> NoResult]

NoNfs ==
  /\ nfsIn = [n |-> 0, seed |-> 0]
  /\ nfsLine = <<>>
  /\ nfsOps = [err |-> FALSE, ops |-> ZeroNFSdv4Ops]
  /\ nfsPc = "none"

\* One caller of NewStatus, any input.
Init ==
  /\ \E in \in Inputs : StatusInit([c \in {1} |-> in])
  /\ NoNfs

\* Two concurrent callers of NewStatus.
InitConc ==
  /\ \E ins \in [{1, 2} -> ConcInputs] : StatusInit(ins)
  /\ NoNfs

\* No caller of NewStatus; one proc4ops line to parse.
InitNfsd ==
  /\ StatusInit(<<>>)
  /\ \E n \in 0..MaxValues, seed \in 0..MaxSeed :
       /\ nfsIn = [n |-> n, seed |-> seed]
       /\ nfsLine = Proc4opsLine(n, seed)
  /\ nfsOps = [err |-> FALSE, ops |-> ZeroNFSdv4Ops]
  /\ nfsPc = "line"

DoOpenOk == \E c \in Callers : OpenOk(c)

DoOpenFail == \E c \in Callers : OpenFail(c)

DoReadLine == \E c \in Callers : ReadLine(c)

DoReturn == \E c \in Callers : Return(c)

Next == DoOpenOk \/ DoOpenFail \/ DoReadLine \/ DoReturn

NextNfsd == ParseNfsd

Spec == Init /\ [][Next]_vars

SpecConc == InitConc /\ [][Next]_vars

SpecNfsd == InitNfsd /\ [][NextNfsd]_vars

(***************************************************************************)
(* Properties.                                                             *)
(***************************************************************************)
Done(c) == pc[c] = "done"

\* os.Open succeeded for caller c.
Opened(c) == b[c] # 0

\* This step is caller c's pass through the inner loop of readStatus.
Stepped(c) == pc[c] = "scan" /\ (pos'[c] # pos[c] \/ pc'[c] = "return")

\* What ReadString returns to caller c next, and what Sscanf makes of it.
Cur(c) == ReadString(file[c], pos[c])

Attempt(c) == Sscanf(Cur(c).line, scanners[idx[c]].format)

\* No scanner's template fully matches the line.
NonMatching(line) ==
  \A k \in 1..NumScanners : Sscanf(line, scanners[k].format).err

\* The only lines besides the kernel's are lines no scanner matches.
OnlyNonMatchingExtras(in) ==
  in.edit.kind = "ins" => NonMatching(ExtraLines[in.edit.extra])

\* Every field of ps has the value the file of this seed holds for it.
HoldsValues(ps, seed) ==
  \A a \in 1..Len(Fields) : ps[Fields[a]] = Val(seed, a)

\* C1 (as amended): for every status input that contains the 18 required
\* labeled lines, one per scanner, each complete with its newline, in the
\* kernel's order, possibly interleaved with extra lines no scanner fully
\* matches, readStatus returns a nil error and a record whose every field
\* equals the value in its labeled line.
C1_WellFormedParses ==
  \A c \in Callers :
    (/\ Done(c) /\ Opened(c)
     /\ input[c].cut = 0
     /\ input[c].edit.kind \in {"none", "ins"}
     /\ OnlyNonMatchingExtras(input[c]))
      => ret[c].err = Nil /\ HoldsValues(ret[c].ps, input[c].seed)

\* C1, a case of it: a whole file with a partly matching extra line is parsed.
C1_Witness ==
  \E c \in Callers :
    /\ Done(c) /\ Opened(c)
    /\ input[c].cut = 0
    /\ input[c].edit = [kind |-> "ins", at |-> 6, extra |-> 5]
    /\ ret[c].err = Nil
    /\ HoldsValues(ret[c].ps, input[c].seed)

\* C1 as stated: 17 required labeled lines in the kernel's order (with
\* extra non-matching lines) are enough for a nil error and for the fields
\* of the lines present to hold their values.
C1_SeventeenLinesSuffice ==
  \A c \in Callers :
    (/\ Done(c) /\ Opened(c)
     /\ input[c].cut = 0
     /\ input[c].edit.kind \in {"none", "ins", "drop"}
     /\ OnlyNonMatchingExtras(input[c])
     /\ (IF input[c].edit.kind = "drop" THEN NumScanners - 1 ELSE NumScanners) >= 17)
      => /\ ret[c].err = Nil
         /\ \A k \in 1..NumScanners :
              (input[c].edit.kind = "drop" /\ input[c].edit.at = k)
                \/ \A j \in 1..Len(scanners[k].args) :
                     ret[c].ps[scanners[k].args[j]]
                       = Val(input[c].seed, FirstArg(k) + j - 1)

\* C2: when the stream is exhausted before every scanner has matched, in
\* particular when a required label is missing, readStatus returns the
\* stream's error with the empty record, never the values already scanned;
\* it returns success only after every scanner has matched.
C2_ExhaustedFailsEmpty ==
  \A c \in Callers :
    (Done(c) /\ Opened(c))
      => /\ (idx[c] <= NumScanners \/ input[c].edit.kind = "drop")
              => ret[c].err \in {EOF, EIO} /\ ret[c].ps = ZeroProcStatus
         /\ ret[c].err = Nil => idx[c] = NumScanners + 1

\* C2, a case of it: the last label is missing, the others were scanned
\* into the builder, and the call returned io.EOF with the empty record.
C2_Witness ==
  \E c \in Callers :
    /\ Done(c) /\ Opened(c)
    /\ input[c].edit = [kind |-> "drop", at |-> NumScanners, extra |-> 0]
    /\ heap[b[c]] # ZeroProcStatus
    /\ ret[c] = [ps |-> ZeroProcStatus, err |-> EOF]

\* C3 as stated: a scan attempt that fails changes none of the fields of
\* the record under construction.
C3_FailedScanLeavesRecord ==
  [][\A c \in Callers :
       (Stepped(c) /\ Cur(c).err = Nil /\ Attempt(c).err)
         => heap'[b[c]] = heap[b[c]]]_vars

\* C4: the error of a status parse tells the failures apart: it is the
\* read error exactly when a read of the stream failed, io.EOF exactly when
\* the stream was read to its end without a required line matching, and
\* the open error exactly when the file could not be opened.
C4_ErrorsDistinguished ==
  \A c \in Callers :
    (Done(c) /\ ret[c].err # Nil)
      => /\ ret[c].err = ENOENT <=> ~Opened(c)
         /\ ret[c].err = EIO <=> (Opened(c) /\ file[c].end = EIO)
         /\ ret[c].err = EOF <=> (Opened(c) /\ file[c].end = EOF)

\* C4, a case of it: a read failed after some scanners had matched.
C4_Witness ==
  \E c \in Callers :
    Done(c) /\ Opened(c) /\ idx[c] > 1 /\ file[c].end = EIO /\ ret[c].err = EIO

\* C5: under every interleaving of the steps of concurrent calls, each
\* call has a builder of its own and returns what readStatus returns when
\* run alone on its stream; calls on the same content return the same.
C5_CallsIndependent ==
  /\ \A c \in Callers :
       (Done(c) /\ Opened(c)) => ret[c] = readStatus(file[c])
  /\ \A c, d \in Callers :
       /\ (c # d /\ Opened(c) /\ Opened(d)) => b[c] # b[d]
       /\ (Done(c) /\ Done(d) /\ Opened(c) /\ Opened(d) /\ file[c] = file[d])
            => ret[c] = ret[d]

\* C5, a case of it: caller 2 opened first and is still scanning a file of
\* another seed when caller 1 returns its full record.
C5_Witness ==
  /\ Callers = {1, 2}
  /\ Done(1) /\ ret[1].err = Nil
  /\ b[2] = 1 /\ pc[2] = "scan" /\ idx[2] > 3
  /\ input[1].seed # input[2].seed

\* C6: the handle is open from before the first read until readStatus has
\* returned, and whenever NewStatus has returned after a successful open
\* the handle is closed, closed exactly once.
C6_HandleReleased ==
  \A c \in Callers :
    /\ pc[c] = "start" => handle[c] = "none"
    /\ pc[c] \in {"scan", "return"} => handle[c] = "open" /\ closes[c] = 0
    /\ (Done(c) /\ Opened(c)) => handle[c] = "closed" /\ closes[c] = 1
    /\ (Done(c) /\ ~Opened(c)) => handle[c] = "none" /\ closes[c] = 0

\* C6, a case of it: NewStatus returned after a read error, handle closed.
C6_Witness ==
  \E c \in Callers :
    Done(c) /\ Opened(c) /\ ret[c].err = EIO /\ handle[c] = "closed"

C8_OneScannerPerLine(c) ==
  /\ pos'[c] = pos[c] + Len(Cur(c).line)
  /\ idx'[c] \in {idx[c], idx[c] + 1}
  /\ idx'[c] = idx[c] + 1 <=> (Cur(c).err = Nil /\ ~Attempt(c).err)
  /\ \A f \in FieldSet :
       (\A j \in 1..Len(scanners[idx[c]].args) : scanners[idx[c]].args[j] # f)
         => heap'[b[c]][f] = heap[b[c]][f]

\* C8: every line read is offered to the current scanner only and is
\* consumed whether or not it matches; the scanner index never decreases
\* and advances by exactly one exactly on a match; so a file whose required
\* line comes before the line of the scanner ahead of it fails to parse.
C8_NoLookaheadNoBacktrack ==
  /\ [](\A c \in Callers :
          (Done(c) /\ Opened(c) /\ input[c].edit.kind = "swap")
            => ret[c].err # Nil /\ ret[c].ps = ZeroProcStatus)
  /\ [][\A c \in Callers : Stepped(c) => C8_OneScannerPerLine(c)]_vars

\* C8, a case of it: two required lines came swapped and the parse failed
\* at the end of the stream.
C8_Witness ==
  \E c \in Callers :
    /\ Done(c) /\ Opened(c)
    /\ input[c].edit.kind = "swap"
    /\ input[c].end = EOF
    /\ ret[c].err = EOF

\* The start of the first complete line at or after p that scanner i fully
\* matches, 0 when there is none.
RECURSIVE FirstMatchFrom(_, _, _)
FirstMatchFrom(stream, p, i) ==
  LET r == ReadString(stream, p)
  IN IF r.err # Nil THEN 0
     ELSE IF ~Sscanf(r.line, scanners[i].format).err THEN p
     ELSE FirstMatchFrom(stream, r.pos, i)

\* For scanners i.. in turn, the start of the first line each fully matches
\* after the line of the scanner before it; p is where scanner i starts.
RECURSIVE FirstMatches(_, _, _)
FirstMatches(stream, p, i) ==
  IF i > NumScanners THEN <<>>
  ELSE LET q == FirstMatchFrom(stream, p, i)
       IN IF q = 0 THEN <<>>
          ELSE <<q>> \o FirstMatches(stream, ReadString(stream, q).pos, i + 1)

\* C9: whenever readStatus succeeds, the fields of each scanner hold the
\* values of the first line that fully matches it after the line matched by
\* the scanner before it; and once a scanner has matched, its fields are
\* never written again.
C9_FirstMatchWins ==
  /\ [](\A c \in Callers :
          (Done(c) /\ Opened(c) /\ ret[c].err = Nil)
            => LET m == FirstMatches(file[c], 1, 1)
               IN /\ Len(m) = NumScanners
                  /\ \A i \in 1..NumScanners :
                       \A j \in 1..Len(scanners[i].args) :
                         ret[c].ps[scanners[i].args[j]]
                           = Sscanf(ReadString(file[c], m[i]).line,
                                    scanners[i].format).vals[j])
  /\ [][\A c \in Callers :
          Stepped(c)
            => \A i \in 1..(idx[c] - 1) :
                 \A j \in 1..Len(scanners[i].args) :
                   heap'[b[c]][scanners[i].args[j]]
                     = heap[b[c]][scanners[i].args[j]]]_vars

\* C9, a case of it: a Uid line with two values only came before the real
\* one, and the record returned holds the real one's values.
C9_Witness ==
  \E c \in Callers :
    /\ Done(c) /\ Opened(c)
    /\ input[c].edit = [kind |-> "ins", at |-> 3, extra |-> 3]
    /\ ret[c].err = Nil
    /\ ret[c].ps["UIDReal"] = Val(input[c].seed, 3)
    /\ ret[c].ps["UIDSavedSet"] = Val(input[c].seed, 5)

\* C10: a read that ends the stream hands its unterminated fragment to no
\* scanner: readStatus returns the stream's error with the empty record; so
\* a file holding every required line in order, the last one without its
\* newline, fails with the error that ended the stream.
C10_FragmentNotScanned ==
  /\ [](\A c \in Callers :
          (Done(c) /\ Opened(c) /\ input[c].edit = NoEdit /\ input[c].cut = 1)
            => ret[c] = [ps |-> ZeroProcStatus, err |-> file[c].end])
  /\ [][\A c \in Callers :
          (Stepped(c) /\ Cur(c).err # Nil)
            => /\ heap' = heap
               /\ idx'[c] = idx[c]
               /\ pc'[c] = "return"
               /\ ret'[c] = [ps |-> ZeroProcStatus, err |-> Cur(c).err]]_vars

\* C10, a case of it: only the newline of the last required line is
\* missing, every other scanner has matched, and the parse failed with
\* io.EOF.
C10_Witness ==
  \E c \in Callers :
    /\ Done(c) /\ Opened(c)
    /\ input[c].edit = NoEdit /\ input[c].cut = 1 /\ input[c].end = EOF
    /\ idx[c] = NumScanners
    /\ ret[c].err = EOF

====
